---- MODULE Spec2Model ----
(***************************************************************************)
(* route-tracker: the graph/state mutation core.                           *)
(*                                                                         *)
(* A project is a ProjectInfo: a directed graph of choice and ending       *)
(* nodes, the id of the selected node (last_choice_id) and two counters    *)
(* (last_generated_id, next_ending_id).  Every operation is run the way    *)
(* the commands run it: the core operation mutates the in-memory           *)
(* ProjectInfo read from the stored project, and store_info is reached     *)
(* only when the operation returned normally.  `info` keeps the in-memory  *)
(* object as the operation left it, so a failed operation's partial        *)
(* mutation stays visible next to the untouched `stored` project.          *)
(***************************************************************************)
EXTENDS Integers, Sequences, FiniteSets, Bags, TLC

VARIABLES
    stored,     \* the project as last written by store_info
    info,       \* the in-memory ProjectInfo after the last operation
    outcome     \* the last operation, its arguments and how it ended

vars == <<stored, info, outcome>>

(***************************************************************************)
(* Bounds of the model.                                                    *)
(***************************************************************************)
MaxId == 2          \* choices are added while last_generated_id stays <= MaxId
MaxBatch == 2       \* labels in one add_choices_and_selection batch
MaxExtraEdges == 1  \* advance / link are taken while the graph has fewer
                    \* edges than this beyond the one each node came with

Labels == {"a"}

(***************************************************************************)
(* Program constants.                                                      *)
(***************************************************************************)
ROUTE_COLORS == <<"green", "blue">>

NoColor == "none"   \* add_edge's color=None: an untravelled candidate edge

(***************************************************************************)
(* Ids.  The graph keys its nodes by strings: a numeric choice id is its   *)
(* decimal text, an ending id is "E" followed by the decimal text.         *)
(***************************************************************************)
NodeId(n) == ToString(n)

EndingId(k) == "E" \o ToString(k)

ChoiceLabel(choice_id, choice_label) ==
    ToString(choice_id) \o ". " \o choice_label

EndingLabel(ending_id, ending_label) == ending_id \o ". " \o ending_label

(***************************************************************************)
(* Python list indexing: ROUTE_COLORS[i], choices_ids[i].  A negative      *)
(* index counts from the end; an index outside -n .. n-1 is an IndexError. *)
(***************************************************************************)
PyInRange(seq, i) == i >= -Len(seq) /\ i < Len(seq)

PyIndex(seq, i) == IF i >= 0 THEN seq[i + 1] ELSE seq[Len(seq) + i + 1]

(***************************************************************************)
(* Results of a step that may raise: the object as the step left it, the   *)
(* exception ("ok" when none) and the id an InvalidNodeId carries.         *)
(***************************************************************************)
Ok(x) == [val |-> x, err |-> "ok", node_id |-> ""]

Raise(x, e, id) == [val |-> x, err |-> e, node_id |-> id]

(***************************************************************************)
(* Graph store and mutators (route_tracker.graph).                         *)
(***************************************************************************)
EmptyGraph == [nodes |-> <<>>, edges |-> EmptyBag]

HasNode(graph, id) == id \in DOMAIN graph.nodes

Edge(a, b, color) == [src |-> a, dst |-> b, color |-> color]

verify_id_exists(graph, id) ==
    IF HasNode(graph, id) THEN Ok(graph) ELSE Raise(graph, "InvalidNodeId", id)

PutNode(graph, id, attrs) ==
    [graph EXCEPT !.nodes = (id :> attrs) @@ graph.nodes]

add_node(graph, id, label) ==
    PutNode(graph, id, [label |-> label, shape |-> "ellipse", filled |-> FALSE])

add_selected_node(graph, id, label) ==
    PutNode(graph, id,
            [label |-> label, shape |-> "doublecircle", filled |-> FALSE])

add_ending_node(graph, id, label) ==
    PutNode(graph, id, [label |-> label, shape |-> "circle", filled |-> TRUE])

select_node(graph, id) ==
    IF HasNode(graph, id)
    THEN Ok([graph EXCEPT !.nodes[id].shape = "doublecircle"])
    ELSE Raise(graph, "InvalidNodeId", id)

deselect_node(graph, id) ==
    IF HasNode(graph, id)
    THEN Ok([graph EXCEPT !.nodes[id].shape = "ellipse"])
    ELSE Raise(graph, "InvalidNodeId", id)

add_edge(graph, a, b, color) ==
    IF ~HasNode(graph, a) THEN Raise(graph, "InvalidNodeId", a)
    ELSE IF ~HasNode(graph, b) THEN Raise(graph, "InvalidNodeId", b)
    ELSE Ok([graph EXCEPT !.edges = @ (+) SetToBag({Edge(a, b, color)})])

\* the edges a -> b are recoloured in place; no edge is added
mark_edge(graph, a, b, color) ==
    LET old == {e \in BagToSet(graph.edges) : e.src = a /\ e.dst = b}
        kept == [e \in BagToSet(graph.edges) \ old |-> graph.edges[e]]
        count == BagCardinality([e \in old |-> graph.edges[e]])
    IN  IF old = {} THEN graph
        ELSE [graph EXCEPT !.edges = kept (+) (Edge(a, b, color) :> count)]

(***************************************************************************)
(* Statements of an operation.  Each takes the run so far (the ProjectInfo *)
(* and whether an exception is in flight) and gives the run after the      *)
(* statement: a statement after a raise is not executed.  The mutators     *)
(* change info.graph in place, so the ProjectInfo holds whatever a         *)
(* statement did before it raised.                                         *)
(***************************************************************************)
OnGraph(p, r) == [r EXCEPT !.val = [p EXCEPT !.graph = r.val]]

DoVerifyIdExists(r, id) ==
    IF r.err # "ok" THEN r
    ELSE OnGraph(r.val, verify_id_exists(r.val.graph, id))

DoAddNode(r, id, label) ==
    IF r.err # "ok" THEN r
    ELSE Ok([r.val EXCEPT !.graph = add_node(@, id, label)])

DoAddEndingNode(r, id, label) ==
    IF r.err # "ok" THEN r
    ELSE Ok([r.val EXCEPT !.graph = add_ending_node(@, id, label)])

DoSelectNode(r, id) ==
    IF r.err # "ok" THEN r ELSE OnGraph(r.val, select_node(r.val.graph, id))

DoDeselectNode(r, id) ==
    IF r.err # "ok" THEN r ELSE OnGraph(r.val, deselect_node(r.val.graph, id))

DoAddEdge(r, a, b, color) ==
    IF r.err # "ok" THEN r
    ELSE OnGraph(r.val, add_edge(r.val.graph, a, b, color))

DoMarkEdge(r, a, b, color) ==
    IF r.err # "ok" THEN r
    ELSE Ok([r.val EXCEPT !.graph = mark_edge(@, a, b, color)])

\* the evaluation of seq[i]: an IndexError when i is out of range
DoIndex(r, seq, i) ==
    IF r.err # "ok" THEN r
    ELSE IF PyInRange(seq, i) THEN r ELSE Raise(r.val, "IndexError", "")

\* the value of seq[i] once DoIndex let it through
Indexed(seq, i) == IF PyInRange(seq, i) THEN PyIndex(seq, i) ELSE PyIndex(seq, 0)

DoSetLastChoiceId(r, id) ==
    IF r.err # "ok" THEN r ELSE Ok([r.val EXCEPT !.last_choice_id = id])

DoSetLastGeneratedId(r, id) ==
    IF r.err # "ok" THEN r ELSE Ok([r.val EXCEPT !.last_generated_id = id])

DoSetNextEndingId(r, k) ==
    IF r.err # "ok" THEN r ELSE Ok([r.val EXCEPT !.next_ending_id = k])

(***************************************************************************)
(* Project state and the choice / ending operations                        *)
(* (route_tracker.projects).                                               *)
(***************************************************************************)

\* fault variant: the start node is added as a plain node
_create_graph_unselected == add_node(EmptyGraph, NodeId(0), "0. start")

_create_graph == add_selected_node(EmptyGraph, NodeId(0), "0. start")

create_project ==
    [graph |-> _create_graph, last_choice_id |-> 0,
     last_generated_id |-> 0, next_ending_id |-> 0]
\* fault variant: the new ids are counted from the cursor
ChoicesIds_from_cursor(p, n) == [i \in 1..n |-> p.last_choice_id + i]

\* list(range(next_id, next_id + len(choices)))
ChoicesIds(p, n) == [i \in 1..n |-> p.last_generated_id + i]

\* the for loop over zip(choices, choices_ids), from its i-th pair on
RECURSIVE AddChoicesFrom(_, _, _, _, _)
AddChoicesFrom(r, choices, choices_ids, last_selected_choice, i) ==
    IF i > Len(choices) \/ r.err # "ok" THEN r
    ELSE LET id == NodeId(choices_ids[i])
             r1 == DoAddNode(r, id, ChoiceLabel(choices_ids[i], choices[i]))
             r2 == DoAddEdge(r1, last_selected_choice, id, NoColor)
         IN  AddChoicesFrom(r2, choices, choices_ids, last_selected_choice,
                            i + 1)

_add_choices_to_graph(choices, p) ==
    AddChoicesFrom(Ok(p), choices, ChoicesIds(p, Len(choices)),
                   NodeId(p.last_choice_id), 1)

\* fault variant: the edge to the selected choice is not marked
UpdateSelectionRun_unmarked(r, selected_choice) ==
    LET last == NodeId(r.val.last_choice_id)
        sel  == NodeId(selected_choice)
        k    == r.val.next_ending_id
        r1 == DoDeselectNode(r, last)
        r2 == DoSelectNode(r1, sel)
        r3 == DoIndex(r2, ROUTE_COLORS, k)
    IN  DoSetLastChoiceId(r3, selected_choice)

\* on the run r: _update_selection(info, selected_choice)
UpdateSelectionRun(r, selected_choice) ==
    LET last == NodeId(r.val.last_choice_id)
        sel  == NodeId(selected_choice)
        k    == r.val.next_ending_id
        r1 == DoDeselectNode(r, last)
        r2 == DoSelectNode(r1, sel)
        r3 == DoIndex(r2, ROUTE_COLORS, k)
        r4 == DoMarkEdge(r3, last, sel, Indexed(ROUTE_COLORS, k))
    IN  DoSetLastChoiceId(r4, selected_choice)

_update_selection(p, selected_choice) ==
    UpdateSelectionRun(Ok(p), selected_choice)

\* fault variant: last_generated_id is set to the selected id, not the last
add_choices_and_selection_last_selected(p, choices, selected_choice_index) ==
    LET choices_ids == ChoicesIds(p, Len(choices))
        r1 == _add_choices_to_graph(choices, p)
        r2 == DoIndex(r1, choices_ids, selected_choice_index)
        r3 == IF r2.err # "ok" THEN r2
              ELSE _update_selection(
                       r2.val, PyIndex(choices_ids, selected_choice_index))
    IN  DoSetLastGeneratedId(r3, r3.val.last_choice_id)

\* fault variant: last_generated_id is not updated
add_choices_and_selection_no_counter(p, choices, selected_choice_index) ==
    LET choices_ids == ChoicesIds(p, Len(choices))
        r1 == _add_choices_to_graph(choices, p)
        r2 == DoIndex(r1, choices_ids, selected_choice_index)
    IN  IF r2.err # "ok" THEN r2
        ELSE _update_selection(
                 r2.val, PyIndex(choices_ids, selected_choice_index))

add_choices_and_selection(p, choices, selected_choice_index) ==
    LET choices_ids == ChoicesIds(p, Len(choices))
        r1 == _add_choices_to_graph(choices, p)
        r2 == DoIndex(r1, choices_ids, selected_choice_index)
        r3 == IF r2.err # "ok" THEN r2
              ELSE _update_selection(
                       r2.val, PyIndex(choices_ids, selected_choice_index))
    IN  DoSetLastGeneratedId(r3, Indexed(choices_ids, -1))
\* fault variant: the edge is drawn from the ending to the current choice
add_ending_reversed_edge(p, ending_label, new_choice_id) ==
    LET numeric_ending_id == p.next_ending_id
        ending_id == EndingId(numeric_ending_id)
        r1 == DoAddEndingNode(Ok(p), ending_id,
                              EndingLabel(ending_id, ending_label))
        last_selected_choice == NodeId(p.last_choice_id)
        r2 == DoIndex(r1, ROUTE_COLORS, numeric_ending_id)
        r3 == DoAddEdge(r2, ending_id, last_selected_choice,
                        Indexed(ROUTE_COLORS, numeric_ending_id))
        r4 == DoDeselectNode(r3, last_selected_choice)
        r5 == DoSelectNode(r4, NodeId(new_choice_id))
        r6 == DoSetLastChoiceId(r5, new_choice_id)
    IN  DoSetNextEndingId(r6, numeric_ending_id + 1)

\* fault variant: the edge to the ending takes the colour of the route that
\* follows
add_ending_next_colour(p, ending_label, new_choice_id) ==
    LET numeric_ending_id == p.next_ending_id
        ending_id == EndingId(numeric_ending_id)
        r1 == DoAddEndingNode(Ok(p), ending_id,
                              EndingLabel(ending_id, ending_label))
        last_selected_choice == NodeId(p.last_choice_id)
        r2 == DoIndex(r1, ROUTE_COLORS, numeric_ending_id + 1)
        r3 == DoAddEdge(r2, last_selected_choice, ending_id,
                        Indexed(ROUTE_COLORS, numeric_ending_id + 1))
        r4 == DoDeselectNode(r3, last_selected_choice)
        r5 == DoSelectNode(r4, NodeId(new_choice_id))
        r6 == DoSetLastChoiceId(r5, new_choice_id)
    IN  DoSetNextEndingId(r6, numeric_ending_id + 1)

\* fault variant: the new ending is selected, not new_choice_id
add_ending_selects_ending(p, ending_label, new_choice_id) ==
    LET numeric_ending_id == p.next_ending_id
        ending_id == EndingId(numeric_ending_id)
        r1 == DoAddEndingNode(Ok(p), ending_id,
                              EndingLabel(ending_id, ending_label))
        last_selected_choice == NodeId(p.last_choice_id)
        r2 == DoIndex(r1, ROUTE_COLORS, numeric_ending_id)
        r3 == DoAddEdge(r2, last_selected_choice, ending_id,
                        Indexed(ROUTE_COLORS, numeric_ending_id))
        r4 == DoDeselectNode(r3, last_selected_choice)
        r5 == DoSelectNode(r4, ending_id)
        r6 == DoSetLastChoiceId(r5, new_choice_id)
    IN  DoSetNextEndingId(r6, numeric_ending_id + 1)

\* fault variant: the edge to the ending is left uncoloured
add_ending_uncoloured(p, ending_label, new_choice_id) ==
    LET numeric_ending_id == p.next_ending_id
        ending_id == EndingId(numeric_ending_id)
        r1 == DoAddEndingNode(Ok(p), ending_id,
                              EndingLabel(ending_id, ending_label))
        last_selected_choice == NodeId(p.last_choice_id)
        r2 == DoIndex(r1, ROUTE_COLORS, numeric_ending_id)
        r3 == DoAddEdge(r2, last_selected_choice, ending_id, NoColor)
        r4 == DoDeselectNode(r3, last_selected_choice)
        r5 == DoSelectNode(r4, NodeId(new_choice_id))
        r6 == DoSetLastChoiceId(r5, new_choice_id)
    IN  DoSetNextEndingId(r6, numeric_ending_id + 1)

\* fault variant: the cursor field is not moved to new_choice_id
add_ending_keeps_cursor(p, ending_label, new_choice_id) ==
    LET numeric_ending_id == p.next_ending_id
        ending_id == EndingId(numeric_ending_id)
        r1 == DoAddEndingNode(Ok(p), ending_id,
                              EndingLabel(ending_id, ending_label))
        last_selected_choice == NodeId(p.last_choice_id)
        r2 == DoIndex(r1, ROUTE_COLORS, numeric_ending_id)
        r3 == DoAddEdge(r2, last_selected_choice, ending_id,
                        Indexed(ROUTE_COLORS, numeric_ending_id))
        r4 == DoDeselectNode(r3, last_selected_choice)
        r5 == DoSelectNode(r4, NodeId(new_choice_id))
    IN  DoSetNextEndingId(r5, numeric_ending_id + 1)

\* fault variant: next_ending_id is not incremented
add_ending_reuses_id(p, ending_label, new_choice_id) ==
    LET numeric_ending_id == p.next_ending_id
        ending_id == EndingId(numeric_ending_id)
        r1 == DoAddEndingNode(Ok(p), ending_id,
                              EndingLabel(ending_id, ending_label))
        last_selected_choice == NodeId(p.last_choice_id)
        r2 == DoIndex(r1, ROUTE_COLORS, numeric_ending_id)
        r3 == DoAddEdge(r2, last_selected_choice, ending_id,
                        Indexed(ROUTE_COLORS, numeric_ending_id))
        r4 == DoDeselectNode(r3, last_selected_choice)
        r5 == DoSelectNode(r4, NodeId(new_choice_id))
    IN  DoSetLastChoiceId(r5, new_choice_id)

add_ending(p, ending_label, new_choice_id) ==
    LET numeric_ending_id == p.next_ending_id
        ending_id == EndingId(numeric_ending_id)
        r1 == DoAddEndingNode(Ok(p), ending_id,
                              EndingLabel(ending_id, ending_label))
        last_selected_choice == NodeId(p.last_choice_id)
        r2 == DoIndex(r1, ROUTE_COLORS, numeric_ending_id)
        r3 == DoAddEdge(r2, last_selected_choice, ending_id,
                        Indexed(ROUTE_COLORS, numeric_ending_id))
        r4 == DoDeselectNode(r3, last_selected_choice)
        r5 == DoSelectNode(r4, NodeId(new_choice_id))
        r6 == DoSetLastChoiceId(r5, new_choice_id)
    IN  DoSetNextEndingId(r6, numeric_ending_id + 1)
\* fault variant: the edges already drawn to the target are recoloured too
advance_to_choice_recolours(p, selected_id) ==
    LET last == NodeId(p.last_choice_id)
        r1 == DoDeselectNode(Ok(p), last)
        r2 == DoSelectNode(r1, NodeId(selected_id))
        r3 == DoIndex(r2, ROUTE_COLORS, p.next_ending_id)
        r4 == DoMarkEdge(r3, last, NodeId(selected_id),
                         Indexed(ROUTE_COLORS, p.next_ending_id))
        r5 == DoAddEdge(r4, last, NodeId(selected_id),
                        Indexed(ROUTE_COLORS, p.next_ending_id))
    IN  DoSetLastChoiceId(r5, selected_id)

\* fault variant: the palette is cycled through
advance_to_choice_cycles(p, selected_id) ==
    LET last == NodeId(p.last_choice_id)
        r1 == DoDeselectNode(Ok(p), last)
        r2 == DoSelectNode(r1, NodeId(selected_id))
        r3 == DoAddEdge(r2, last, NodeId(selected_id),
                        PyIndex(ROUTE_COLORS,
                                p.next_ending_id % Len(ROUTE_COLORS)))
    IN  DoSetLastChoiceId(r3, selected_id)

\* fault variant: the edge to the target is marked, not added
advance_to_choice_marks(p, selected_id) ==
    LET last == NodeId(p.last_choice_id)
        r1 == DoDeselectNode(Ok(p), last)
        r2 == DoSelectNode(r1, NodeId(selected_id))
        r3 == DoIndex(r2, ROUTE_COLORS, p.next_ending_id)
        r4 == DoMarkEdge(r3, last, NodeId(selected_id),
                         Indexed(ROUTE_COLORS, p.next_ending_id))
    IN  DoSetLastChoiceId(r4, selected_id)

\* fault variant: the previous cursor is not deselected
advance_to_choice_keeps_selection(p, selected_id) ==
    LET last == NodeId(p.last_choice_id)
        r2 == DoSelectNode(Ok(p), NodeId(selected_id))
        r3 == DoIndex(r2, ROUTE_COLORS, p.next_ending_id)
        r4 == DoAddEdge(r3, last, NodeId(selected_id),
                        Indexed(ROUTE_COLORS, p.next_ending_id))
    IN  DoSetLastChoiceId(r4, selected_id)

advance_to_choice(p, selected_id) ==
    LET last == NodeId(p.last_choice_id)
        r1 == DoDeselectNode(Ok(p), last)
        r2 == DoSelectNode(r1, NodeId(selected_id))
        r3 == DoIndex(r2, ROUTE_COLORS, p.next_ending_id)
        r4 == DoAddEdge(r3, last, NodeId(selected_id),
                        Indexed(ROUTE_COLORS, p.next_ending_id))
    IN  DoSetLastChoiceId(r4, selected_id)

\* fault variant: the link is drawn in the current route colour
link_to_choice_coloured(p, selected_id) ==
    LET r1 == DoVerifyIdExists(Ok(p), NodeId(selected_id))
    IN  DoAddEdge(r1, NodeId(p.last_choice_id), NodeId(selected_id),
                  Indexed(ROUTE_COLORS, p.next_ending_id))

\* fault variant: the edge is put into the graph without any existence check
link_to_choice_unchecked(p, selected_id) ==
    Ok([p EXCEPT !.graph.edges =
            @ (+) SetToBag({Edge(NodeId(p.last_choice_id),
                                 NodeId(selected_id), NoColor)})])

\* fault variant: the cursor field is moved to the link's target
link_to_choice_sets_cursor(p, selected_id) ==
    LET r1 == DoVerifyIdExists(Ok(p), NodeId(selected_id))
        r2 == DoAddEdge(r1, NodeId(p.last_choice_id), NodeId(selected_id),
                        NoColor)
    IN  DoSetLastChoiceId(r2, selected_id)

\* fault variant: the selection is touched before the target is validated
link_to_choice_moves(p, selected_id) ==
    LET last == NodeId(p.last_choice_id)
        r1 == DoDeselectNode(Ok(p), last)
        r2 == DoVerifyIdExists(r1, NodeId(selected_id))
        r3 == DoSelectNode(r2, last)
    IN  DoAddEdge(r3, last, NodeId(selected_id), NoColor)

link_to_choice(p, selected_id) ==
    LET r1 == DoVerifyIdExists(Ok(p), NodeId(selected_id))
    IN  DoAddEdge(r1, NodeId(p.last_choice_id), NodeId(selected_id), NoColor)

\* draws an edge (a link: uncoloured, as link_to_choice's) from the current
\* choice to an existing ending, then jumps to new_choice_id the way
\* add_ending does, without allocating an ending
link_to_ending(p, ending_id, new_choice_id) ==
    LET last == NodeId(p.last_choice_id)
        r1 == DoVerifyIdExists(Ok(p), ending_id)
        r2 == DoVerifyIdExists(r1, NodeId(new_choice_id))
        r3 == DoAddEdge(r2, last, ending_id, NoColor)
        r4 == DoDeselectNode(r3, last)
        r5 == DoSelectNode(r4, NodeId(new_choice_id))
    IN  DoSetLastChoiceId(r5, new_choice_id)

(***************************************************************************)
(* Inputs.                                                                 *)
(***************************************************************************)
Batches == UNION {[1..n -> Labels] : n \in 0..MaxBatch}

\* every index of the batch, -1 (Python's last element) and one past the end
Indexes(choices) == -1..Len(choices)

\* every numeric id allocated so far and the first one that is not
IdInputs(p) == 0..(p.last_generated_id + 1)

\* every ending id allocated so far, the first one that is not, and the
\* start node's id (an existing node that is no ending)
EndingInputs(p) == {EndingId(k) : k \in 0..p.next_ending_id} \cup {NodeId(0)}

ExtraEdges(p) ==
    BagCardinality(p.graph.edges) - (Cardinality(DOMAIN p.graph.nodes) - 1)

(***************************************************************************)
(* The state machine.  A command reads the stored project                  *)
(* (read_project_info), runs one operation on the in-memory ProjectInfo    *)
(* and reaches store_info only when the operation returned normally: an    *)
(* InvalidNodeId aborts the command, an IndexError ends it, both before    *)
(* store_info.  After a command that did not store, the in-memory object   *)
(* is gone with its process and the next command starts from the stored    *)
(* project again.                                                          *)
(***************************************************************************)
Call(op, target, n, index) ==
    [op |-> op, target |-> target, n |-> n, index |-> index]

Finish(r, call) ==
    /\ outcome.err = "ok"
    /\ info' = r.val
    /\ stored' = IF r.err = "ok" THEN r.val ELSE stored
    /\ outcome' = [op |-> call.op, target |-> call.target, n |-> call.n,
                   index |-> call.index, err |-> r.err, node_id |-> r.node_id]

Init ==
    /\ stored = create_project
    /\ info = create_project
    /\ outcome = [op |-> "create_project", target |-> "", n |-> 0,
                  index |-> 0, err |-> "ok", node_id |-> ""]

AddChoicesAndSelection ==
    \E choices \in Batches : \E i \in Indexes(choices) :
        /\ info.last_generated_id + Len(choices) <= MaxId
        /\ Finish(add_choices_and_selection(info, choices, i),
                  Call("add_choices_and_selection", "", Len(choices), i))

AddEnding ==
    \E ending_label \in Labels, new_choice_id \in IdInputs(info) :
        Finish(add_ending(info, ending_label, new_choice_id),
               Call("add_ending", NodeId(new_choice_id), 0, 0))

AdvanceToChoice ==
    \E selected_id \in IdInputs(info) :
        /\ ExtraEdges(info) < MaxExtraEdges
        /\ Finish(advance_to_choice(info, selected_id),
                  Call("advance_to_choice", NodeId(selected_id), 0, 0))

LinkToChoice ==
    \E selected_id \in IdInputs(info) :
        /\ ExtraEdges(info) < MaxExtraEdges
        /\ Finish(link_to_choice(info, selected_id),
                  Call("link_to_choice", NodeId(selected_id), 0, 0))

LinkToEnding ==
    \E ending_id \in EndingInputs(info), new_choice_id \in IdInputs(info) :
        /\ ExtraEdges(info) < MaxExtraEdges
        /\ Finish(link_to_ending(info, ending_id, new_choice_id),
                  Call("link_to_ending", NodeId(new_choice_id), 0, 0))

\* the next command after one that raised: the stored project is read anew
ReadProjectInfo ==
    /\ outcome.err # "ok"
    /\ info' = stored
    /\ outcome' = [op |-> "read_project_info", target |-> "", n |-> 0,
                   index |-> 0, err |-> "ok", node_id |-> ""]
    /\ UNCHANGED stored

Next ==
    \/ ReadProjectInfo
    \/ AddChoicesAndSelection
    \/ AddEnding
    \/ AdvanceToChoice
    \/ LinkToChoice
    \/ LinkToEnding

Spec == Init /\ [][Next]_vars

(***************************************************************************)
(* The commands (route_tracker.commands).  A command reads the stored      *)
(* project, checks what the caller has to check, runs the core operation   *)
(* and stores the project; abort raises Exit(code=1), which ends the       *)
(* command where it is raised.  The project that does not exist (no graph  *)
(* file) is the project with the empty graph store.                        *)
(***************************************************************************)
ProjectName == "test_name"

NoProject ==
    [graph |-> EmptyGraph, last_choice_id |-> 0,
     last_generated_id |-> 0, next_ending_id |-> 0]

Exists(s) == DOMAIN s.graph.nodes # {}

\* echo(message, err=True); raise Exit(code=1)
abort(x, message) ==
    [val |-> x, err |-> "Exit", node_id |-> "", message |-> message]

\* except InvalidNodeId as e: abort(f'id {e.node_id} does not exist')
abort_on_invalid_id(r) ==
    IF r.err = "InvalidNodeId"
    THEN abort(r.val, "id " \o r.node_id \o " does not exist")
    ELSE r
\* fault variant: reading a project that is not there makes it
read_project_info_creates(s) == IF Exists(s) THEN Ok(s) ELSE Ok(create_project)

\* get_graph: the graph file that is not there is a FileNotFoundError
read_project_info(s) ==
    IF Exists(s) THEN Ok(s)
    ELSE abort(s, "Project " \o ProjectName \o " does not exist")
\* fault variant: new validates nothing
_validate_nothing(s) == Ok(s)

_validate_project_does_not_exist(s) ==
    IF Exists(s) THEN abort(s, ProjectName \o " already exists. Ignoring...")
    ELSE Ok(s)

\* create_project and store_info (the store is CmdFinish's)
store_new_project == Ok(create_project)

\* save_file, target_directory: whether the option was passed (the backup
\* of the save file they ask for is no part of the project state)
new(s, save_file, target_directory) ==
    LET r1 == _validate_project_does_not_exist(s)
    IN  IF r1.err # "ok" THEN r1
        ELSE IF save_file # target_directory
        THEN abort(s, "save_file and test_directory must be passed together")
        ELSE store_new_project

\* the text of an integer the user types, and int() of a text
IntTexts == {ToString(i) : i \in (0 - MaxBatch - 1)..(MaxBatch + 1)}

IsNumber(text) == text \in IntTexts

int(text) ==
    CHOOSE i \in (0 - MaxBatch - 1)..(MaxBatch + 1) : ToString(i) = text

\* choices: the lines read up to the blank line
_read_choices(p, choices) ==
    IF Len(choices) = 0 THEN abort(p, "At least one choice must be entered")
    ELSE Ok(p)

\* fault variant: only the upper bound of the index is checked
_get_selected_choice_index_no_lower(p, index_input, choices_number) ==
    IF ~IsNumber(index_input)
    THEN abort(p, "Index " \o index_input \o " is not a number")
    ELSE IF int(index_input) >= choices_number
    THEN abort(p, "Index " \o index_input \o " is out of bounds")
    ELSE Ok(p)

_get_selected_choice_index(p, index_input, choices_number) ==
    IF ~IsNumber(index_input)
    THEN abort(p, "Index " \o index_input \o " is not a number")
    ELSE IF int(index_input) < 0 \/ int(index_input) >= choices_number
    THEN abort(p, "Index " \o index_input \o " is out of bounds")
    ELSE Ok(p)

\* add_choices_and_selection and store_info (the store is CmdFinish's)
store_choices_and_selection(p, choices, selected_choice_index) ==
    add_choices_and_selection(p, choices, selected_choice_index)

choices_add(s, choices, index_input) ==
    LET r0 == read_project_info(s)
        r1 == IF r0.err # "ok" THEN r0 ELSE _read_choices(s, choices)
        r2 == IF r1.err # "ok" THEN r1
              ELSE _get_selected_choice_index(s, index_input, Len(choices))
    IN  IF r2.err # "ok" THEN r2
        ELSE store_choices_and_selection(s, choices, int(index_input))

\* fault variant: the id is not compared with the cursor
_abort_on_invalid_id_only(routine_name, node_id, p, body) ==
    abort_on_invalid_id(body)

\* body: the run of the with block's body, entered only past the check
_abort_on_invalid_or_current_id(routine_name, node_id, p, body) ==
    IF node_id = p.last_choice_id
    THEN abort(p, "Cannot " \o routine_name
                  \o " currently selected node to itself")
    ELSE abort_on_invalid_id(body)

choices_advance(s, existing_id) ==
    LET r0 == read_project_info(s)
    IN  IF r0.err # "ok" THEN r0
        ELSE _abort_on_invalid_or_current_id(
                 "advance", existing_id, s, advance_to_choice(s, existing_id))

choices_link(s, existing_id) ==
    LET r0 == read_project_info(s)
    IN  IF r0.err # "ok" THEN r0
        ELSE _abort_on_invalid_or_current_id(
                 "link", existing_id, s, link_to_choice(s, existing_id))

\* except InvalidNodeId: abort(f'id {new_choice_id} does not exist')
_add_ending(p, ending_label, new_choice_id) ==
    LET r == add_ending(p, ending_label, new_choice_id)
    IN  IF r.err = "InvalidNodeId"
        THEN abort(r.val, "id " \o ToString(new_choice_id)
                          \o " does not exist")
        ELSE r

\* fault variant: the cursor is not compared with the start node
ending_add_from_start(s, ending_label, new_choice_id) ==
    LET r0 == read_project_info(s)
    IN  IF r0.err # "ok" THEN r0
        ELSE _add_ending(s, ending_label, new_choice_id)

ending_add(s, ending_label, new_choice_id) ==
    LET r0 == read_project_info(s)
    IN  IF r0.err # "ok" THEN r0
        ELSE IF s.last_choice_id = 0
        THEN abort(s, "You cannot add an ending directly to the start node")
        ELSE _add_ending(s, ending_label, new_choice_id)

ending_link(s, ending_id, new_choice_id) ==
    LET r0 == read_project_info(s)
    IN  IF r0.err # "ok" THEN r0
        ELSE abort_on_invalid_id(link_to_ending(s, ending_id, new_choice_id))

\* what the user can type as the index: every index of the batch, -1, one
\* past the end, and a text that is no number
IndexInputs(choices) ==
    {ToString(i) : i \in Indexes(choices)} \cup {"not_a_number"}

\* fault variant: store_info runs whether or not the operation raised
CmdFinish_stores_anyway(r, call) ==
    /\ info' = r.val
    /\ stored' = r.val
    /\ outcome' = [op |-> call.op, target |-> call.target, n |-> call.n,
                   index |-> call.index, err |-> r.err, node_id |-> r.node_id,
                   code |-> IF r.err = "ok" THEN 0 ELSE 1,
                   message |-> IF r.err = "Exit" THEN r.message ELSE ""]

\* the command ends: store_info is the statement after the operation, so it
\* is reached when nothing was raised; the exit code is 0 then, and 1 after
\* Exit(code=1) or an uncaught exception
CmdFinish(r, call) ==
    /\ info' = r.val
    /\ stored' = IF r.err = "ok" THEN r.val ELSE stored
    /\ outcome' = [op |-> call.op, target |-> call.target, n |-> call.n,
                   index |-> call.index, err |-> r.err, node_id |-> r.node_id,
                   code |-> IF r.err = "ok" THEN 0 ELSE 1,
                   message |-> IF r.err = "Exit" THEN r.message ELSE ""]

CmdInit ==
    /\ stored = NoProject
    /\ info = NoProject
    /\ outcome = [op |-> "", target |-> "", n |-> 0, index |-> "",
                  err |-> "ok", node_id |-> "", code |-> 0, message |-> ""]

New ==
    \E save_file \in BOOLEAN, target_directory \in BOOLEAN :
        CmdFinish(new(stored, save_file, target_directory),
                  Call("new", "", 0, ""))

ChoicesAdd ==
    \E choices \in Batches : \E index_input \in IndexInputs(choices) :
        /\ stored.last_generated_id + Len(choices) <= MaxId
        /\ CmdFinish(choices_add(stored, choices, index_input),
                     Call("choices add", "", Len(choices), index_input))

ChoicesAdvance ==
    \E existing_id \in IdInputs(stored) :
        /\ ExtraEdges(stored) < MaxExtraEdges
        /\ CmdFinish(choices_advance(stored, existing_id),
                     Call("choices advance", NodeId(existing_id), 0, ""))

ChoicesLink ==
    \E existing_id \in IdInputs(stored) :
        /\ ExtraEdges(stored) < MaxExtraEdges
        /\ CmdFinish(choices_link(stored, existing_id),
                     Call("choices link", NodeId(existing_id), 0, ""))

EndingAdd ==
    \E ending_label \in Labels, new_choice_id \in IdInputs(stored) :
        CmdFinish(ending_add(stored, ending_label, new_choice_id),
                  Call("ending add", NodeId(new_choice_id), 0, ""))

EndingLink ==
    \E ending_id \in EndingInputs(stored), new_choice_id \in IdInputs(stored) :
        /\ ExtraEdges(stored) < MaxExtraEdges
        /\ CmdFinish(ending_link(stored, ending_id, new_choice_id),
                     Call("ending link", NodeId(new_choice_id), 0, ""))

CmdNext ==
    \/ New
    \/ ChoicesAdd
    \/ ChoicesAdvance
    \/ ChoicesLink
    \/ EndingAdd
    \/ EndingLink

CmdSpec == CmdInit /\ [][CmdNext]_vars

(***************************************************************************)
(* The data directory (route_tracker.io).  Under FsSpec `stored` is the    *)
(* data directory itself: for each project name whether its directory     *)
(* exists, its graph file and its data file; a file is the set of its one  *)
(* content, the empty set is the file that is not there.  A command        *)
(* invocation is a process: it reads the project, runs its command in      *)
(* memory and then writes the graph file and the data file, one after the  *)
(* other; two invocations can be running at once.  `info` is each          *)
(* process's ProjectInfo, `outcome` each process's position and how its    *)
(* last command ended.                                                     *)
(***************************************************************************)
Names == {"test_name", "other_name"}

Procs == {1, 2}

MaxCommands == 3    \* command invocations started in one behaviour

NoFile == {}

File(content) == {content}

Content(file) == CHOOSE content \in file : TRUE

NoDir == [dir |-> FALSE, graph |-> NoFile, data |-> NoFile]

\* graph.store: the document written for a graph, one statement per node
\* and per edge; an uncoloured edge has no color attribute
NodeStmt(graph, id) ==
    [id |-> id, label |-> graph.nodes[id].label,
     shape |-> graph.nodes[id].shape,
     style |-> IF graph.nodes[id].filled THEN "filled" ELSE ""]

EdgeStmt(e) ==
    [src |-> e.src, dst |-> e.dst,
     attrs |-> IF e.color = NoColor THEN <<>> ELSE <<e.color>>]

store(graph) ==
    [node_stmts |-> {NodeStmt(graph, id) : id \in DOMAIN graph.nodes},
     edge_stmts |-> [s \in {EdgeStmt(e) : e \in BagToSet(graph.edges)} |->
                        graph.edges[Edge(s.src, s.dst,
                                         IF s.attrs = <<>> THEN NoColor
                                         ELSE s.attrs[1])]]]

\* Graph(path): the graph of a document
StmtEdge(s) ==
    Edge(s.src, s.dst, IF s.attrs = <<>> THEN NoColor ELSE s.attrs[1])

load(document) ==
    [nodes |-> [id \in {s.id : s \in document.node_stmts} |->
                   LET s == CHOOSE s \in document.node_stmts : s.id = id
                   IN  [label |-> s.label, shape |-> s.shape,
                        filled |-> s.style = "filled"]],
     edges |-> [e \in {StmtEdge(s) : s \in DOMAIN document.edge_stmts} |->
                   document.edge_stmts[EdgeStmt(e)]]]

\* the data file's document
_store_ids(p) ==
    [last_selected_choice |-> p.last_choice_id,
     last_id |-> p.last_generated_id,
     next_ending_id |-> p.next_ending_id]
\* fault variant: the ids are read back in the order last_id,
\* last_selected_choice, next_ending_id
_get_ids_swapped(config) ==
    <<config.last_id, config.last_selected_choice, config.next_ending_id>>

_get_ids(config) ==
    <<config.last_selected_choice, config.last_id, config.next_ending_id>>

\* ProjectInfo(name, graph, *ids)
ProjectInfo(graph, ids) ==
    [graph |-> graph, last_choice_id |-> ids[1],
     last_generated_id |-> ids[2], next_ending_id |-> ids[3]]

\* get_graph: the graph of the graph file, the empty store when it is not
\* there
get_graph(files) ==
    IF files.graph = NoFile THEN EmptyGraph ELSE load(Content(files.graph))

\* read_project_info on the files of a project: get_graph first (the
\* command aborts on it when the graph file is not there), then open() of
\* the data file, a FileNotFoundError when that one is not there
ReadFiles(files) ==
    IF files.graph = NoFile THEN Ok(NoProject)
    ELSE IF files.data = NoFile
    THEN Raise([NoProject EXCEPT !.graph = get_graph(files)],
               "FileNotFoundError", "")
    ELSE Ok(ProjectInfo(get_graph(files), _get_ids(Content(files.data))))

\* store_info's two writes
WriteGraph(files, p) == [files EXCEPT !.graph = File(store(p.graph))]
\* fault variant: the data file keeps the larger of its last_id and the
\* writer's
WriteIds_merging(files, p) ==
    IF files.data = NoFile THEN [files EXCEPT !.data = File(_store_ids(p))]
    ELSE [files EXCEPT !.data =
             File([_store_ids(p) EXCEPT
                      !.last_id = IF Content(files.data).last_id > @
                                  THEN Content(files.data).last_id ELSE @])]

WriteIds(files, p) == [files EXCEPT !.data = File(_store_ids(p))]

\* view: draw_image(project_name, get_graph(project_name)) and the viewer;
\* it reads the graph file only
view(files) ==
    read_project_info([NoProject EXCEPT !.graph = get_graph(files)])

\* what can be typed to the commands for the project s that was read
FsCalls(s) ==
    LET ids == IF Exists(s) THEN IdInputs(s) ELSE {0}
    IN  {[op |-> "view"]}
        \cup {[op |-> "choices add", choices |-> choices,
               index_input |-> index_input] :
                 choices \in {c \in Batches :
                                 s.last_generated_id + Len(c) <= MaxId},
                 index_input \in IntTexts \cup {"not_a_number"}}
        \cup {[op |-> "choices advance", existing_id |-> id] :
                 id \in {i \in ids : ExtraEdges(s) < MaxExtraEdges}}
        \cup {[op |-> "choices link", existing_id |-> id] :
                 id \in {i \in ids : ExtraEdges(s) < MaxExtraEdges}}
        \cup {[op |-> "ending add", ending_label |-> l,
               new_choice_id |-> id] : l \in Labels, id \in ids}
        \cup {[op |-> "ending link", ending_id |-> e,
               new_choice_id |-> id] :
                 e \in IF Exists(s) THEN EndingInputs(s) ELSE {EndingId(0)},
                 id \in {i \in ids : ExtraEdges(s) < MaxExtraEdges}}

\* the command up to its store_info, on the files it finds
RunCommand(files, call) ==
    LET r0 == ReadFiles(files)
        s == r0.val
    IN  IF call.op = "view" THEN view(files)
        ELSE IF r0.err # "ok" THEN r0
        ELSE CASE call.op = "choices add" ->
                      choices_add(s, call.choices, call.index_input)
               [] call.op = "choices advance" ->
                      choices_advance(s, call.existing_id)
               [] call.op = "choices link" ->
                      choices_link(s, call.existing_id)
               [] call.op = "ending add" ->
                      ending_add(s, call.ending_label, call.new_choice_id)
               [] call.op = "ending link" ->
                      ending_link(s, call.ending_id, call.new_choice_id)

Idle(op, name, err) ==
    [pc |-> "idle", op |-> op, name |-> name, err |-> err,
     code |-> IF err = "ok" THEN 0 ELSE 1]

Running(pc, op, name) ==
    [pc |-> pc, op |-> op, name |-> name, err |-> "ok", code |-> 0]

FsInit ==
    /\ stored = [name \in Names |-> NoDir]
    /\ info = [proc \in Procs |-> NoProject]
    /\ outcome = [started |-> 0, proc |-> [p \in Procs |-> Idle("", "", "ok")]]

\* a command may start when its process runs none; process 2 is the
\* invocation that starts while process 1 is running
MayStart(proc) ==
    /\ outcome.started < MaxCommands
    /\ outcome.proc[proc].pc = "idle"
    /\ proc = 2 => outcome.proc[1].pc # "idle"

\* the run r of a command up to its store_info: the process goes on to
\* store_info, or has ended; get_project_dir has made the directory
Started(proc, name, op, r) ==
    /\ stored' = [stored EXCEPT ![name].dir = TRUE]
    /\ IF r.err = "ok" /\ op # "view"
       THEN /\ info' = [info EXCEPT ![proc] = r.val]
            /\ outcome' = [started |-> outcome.started + 1,
                           proc |-> [outcome.proc EXCEPT
                                        ![proc] = Running("computed", op, name)]]
       ELSE /\ info' = [info EXCEPT ![proc] = NoProject]
            /\ outcome' = [started |-> outcome.started + 1,
                           proc |-> [outcome.proc EXCEPT
                                        ![proc] = Idle(op, name, r.err)]]

\* new without the save file options
FsNew ==
    \E proc \in Procs, name \in Names :
        /\ MayStart(proc)
        /\ Started(proc, name, "new",
                   new([NoProject EXCEPT !.graph = get_graph(stored[name])],
                       FALSE, FALSE))

FsCommand ==
    \E proc \in Procs, name \in Names :
        \E call \in FsCalls(ReadFiles(stored[name]).val) :
            /\ MayStart(proc)
            /\ Started(proc, name, call.op, RunCommand(stored[name], call))

\* store(info.graph, get_graph_file(info.name))
FsStoreGraph ==
    \E proc \in Procs :
        LET name == outcome.proc[proc].name
        IN  /\ outcome.proc[proc].pc = "computed"
            /\ stored' = [stored EXCEPT
                             ![name] = WriteGraph(stored[name], info[proc])]
            /\ outcome' = [outcome EXCEPT
                              !.proc[proc].pc = "graph_stored"]
            /\ UNCHANGED info

\* _store_ids(info), and the command ends
FsStoreIds ==
    \E proc \in Procs :
        LET name == outcome.proc[proc].name
        IN  /\ outcome.proc[proc].pc = "graph_stored"
            /\ stored' = [stored EXCEPT
                             ![name] = WriteIds(stored[name], info[proc])]
            /\ info' = [info EXCEPT ![proc] = NoProject]
            /\ outcome' = [outcome EXCEPT
                              !.proc[proc] =
                                  Idle(outcome.proc[proc].op, name, "ok")]

\* the process is stopped between the two writes of store_info
FsStop ==
    \E proc \in Procs :
        /\ outcome.proc[proc].pc = "graph_stored"
        /\ info' = [info EXCEPT ![proc] = NoProject]
        /\ outcome' = [outcome EXCEPT
                          !.proc[proc] =
                              Idle(outcome.proc[proc].op,
                                   outcome.proc[proc].name, "stopped")]
        /\ UNCHANGED stored

FsNext ==
    \/ FsNew
    \/ FsCommand
    \/ FsStoreGraph
    \/ FsStoreIds
    \/ FsStop

FsSpec == FsInit /\ [][FsNext]_vars

(***************************************************************************)
(* Vocabulary of the properties.                                           *)
(***************************************************************************)
Nodes(p) == DOMAIN p.graph.nodes

Selected(p) == {id \in Nodes(p) : p.graph.nodes[id].shape = "doublecircle"}

NumericIds(p) == {k \in 0..(MaxId + MaxBatch) : NodeId(k) \in Nodes(p)}

\* under FsSpec: the process that starts a command in this step, and the
\* step in which proc starts the command op on the project name
Starter == IF outcome.proc[1].pc = "idle" THEN 1 ELSE 2

Starts(proc, op, name) ==
    /\ outcome'.started = outcome.started + 1
    /\ proc = Starter
    /\ outcome'.proc[proc].op = op
    /\ outcome'.proc[proc].name = name

\* under FsSpec: the step in which proc ends store_info
Stores(proc) ==
    /\ outcome.proc[proc].pc = "graph_stored"
    /\ outcome'.proc[proc].pc = "idle"
    /\ outcome'.proc[proc].err = "ok"

\* under FsSpec: the graph file of the project proc works on is the one
\* proc wrote
OwnGraph(proc) ==
    stored[outcome.proc[proc].name].graph = File(store(info[proc].graph))

Max(S) == CHOOSE m \in S : \A k \in S : k <= m

NoDanglingEdge(p) ==
    \A e \in BagToSet(p.graph.edges) : e.src \in Nodes(p) /\ e.dst \in Nodes(p)

Succeeded(o, op) == o.op = op /\ o.err = "ok"

\* the edges of q that p does not have, with their multiplicity
EdgesAdded(p, q) == q.graph.edges (-) p.graph.edges

\* every edge of p is an edge of q, as often and with the same colour
KeepsEdges(p, q) == p.graph.edges \sqsubseteq q.graph.edges

\* every node of p is in q with the same label and fill
KeepsNodes(p, q) ==
    \A id \in Nodes(p) :
        /\ id \in Nodes(q)
        /\ q.graph.nodes[id].label = p.graph.nodes[id].label
        /\ q.graph.nodes[id].filled = p.graph.nodes[id].filled

SameBag(a, b) == a \sqsubseteq b /\ b \sqsubseteq a

(***************************************************************************)
(* Properties.                                                             *)
(***************************************************************************)

\* C1: in every project state reached by successfully completed operations
\* exactly one node carries the selected (double-circle) marking.
C1_ExactlyOneSelected == Cardinality(Selected(stored)) = 1

\* reached: an ending was added after choices and an advance or link, and
\* the cursor jumped to a choice
C1_Witness ==
    /\ Succeeded(outcome, "add_ending")
    /\ Cardinality(Nodes(stored)) >= 4
    /\ ExtraEdges(stored) >= 1
    /\ stored.last_choice_id # 0
    /\ Cardinality(Selected(stored)) = 1

\* C2: last_choice_id names a node of the graph and that node is the one
\* marked selected.
C2_CursorIsTheSelectedNode ==
    /\ HasNode(stored.graph, NodeId(stored.last_choice_id))
    /\ Selected(stored) = {NodeId(stored.last_choice_id)}

\* reached: an advance moved the cursor to choice 2
C2_Witness ==
    /\ Succeeded(outcome, "advance_to_choice")
    /\ stored.last_choice_id = 2
    /\ Selected(stored) = {NodeId(2)}

\* C3: a successful add_choices_and_selection of n >= 1 labels creates
\* exactly the nodes last_generated_id+1 .. last_generated_id+n, none of
\* which existed, and raises last_generated_id by n; no step removes a node,
\* so an id is never allocated twice.
C3_Step ==
    /\ Nodes(stored) \subseteq Nodes(stored')
    /\ Succeeded(outcome', "add_choices_and_selection") =>
        LET n == outcome'.n
            fresh == {NodeId(stored.last_generated_id + i) : i \in 1..n}
        IN  /\ n >= 1
            /\ Cardinality(fresh) = n
            /\ fresh \cap Nodes(stored) = {}
            /\ Nodes(stored') \ Nodes(stored) = fresh
            /\ stored'.last_generated_id = stored.last_generated_id + n

C3_SequentialIdsNeverReused == [][C3_Step]_vars

\* reached: a second batch was added after a first batch and a link or
\* advance
C3_Witness ==
    /\ Succeeded(outcome, "add_choices_and_selection")
    /\ outcome.n = 1
    /\ stored.last_generated_id = 2
    /\ ExtraEdges(stored) >= 1

\* C4: last_generated_id equals the largest numeric choice id in the graph
\* (0 for a fresh project) and no operation decreases it.
C4_State == stored.last_generated_id = Max(NumericIds(stored))

C4_Step ==
    /\ stored'.last_generated_id >= stored.last_generated_id
    /\ info'.last_generated_id >= stored.last_generated_id

C5_Step ==
    /\ stored'.next_ending_id >= stored.next_ending_id
    /\ info'.next_ending_id >= stored.next_ending_id
    /\ outcome'.op = "add_choices_and_selection" =>
        stored'.next_ending_id = stored.next_ending_id
    /\ Succeeded(outcome', "add_ending") =>
        LET k == stored.next_ending_id
        IN  /\ Nodes(stored') \ Nodes(stored) = {EndingId(k)}
            /\ stored'.graph.nodes[EndingId(k)].filled
            /\ stored'.next_ending_id = k + 1
            /\ stored'.last_generated_id = stored.last_generated_id

C6_NoDanglingEdge ==
    /\ NoDanglingEdge(stored)
    /\ NoDanglingEdge(info)
    /\ (/\ outcome.op \in {"advance_to_choice", "link_to_choice"}
        /\ ~HasNode(stored.graph, outcome.target))
       => outcome.err = "InvalidNodeId"

\* reached: an advance to a missing node was refused on a graph with edges
C6_Witness ==
    /\ outcome.op = "advance_to_choice"
    /\ ~HasNode(stored.graph, outcome.target)
    /\ outcome.err = "InvalidNodeId"
    /\ BagCardinality(stored.graph.edges) >= 2
    /\ BagCardinality(info.graph.edges) = BagCardinality(stored.graph.edges)

\* C7 as stated: link_to_choice and link_to_ending, whether they succeed or
\* fail, leave last_choice_id, last_generated_id and next_ending_id
\* unchanged.
C7_StepAsStated ==
    outcome'.op \in {"link_to_choice", "link_to_ending"} =>
        /\ info'.last_choice_id = stored.last_choice_id
        /\ info'.last_generated_id = stored.last_generated_id
        /\ info'.next_ending_id = stored.next_ending_id

C7_LinksChangeNoIdAsStated == [][C7_StepAsStated]_vars

\* C7 amended: link_to_choice, whether it succeeds or fails, leaves
\* last_choice_id, last_generated_id and next_ending_id unchanged;
\* link_to_ending leaves last_generated_id and next_ending_id unchanged, and
\* last_choice_id too when it fails, but a successful link_to_ending sets
\* last_choice_id to new_choice_id.
C7_Step ==
    /\ outcome'.op = "link_to_choice" =>
        /\ info'.last_choice_id = stored.last_choice_id
        /\ info'.last_generated_id = stored.last_generated_id
        /\ info'.next_ending_id = stored.next_ending_id
        /\ stored'.last_choice_id = stored.last_choice_id
        /\ stored'.last_generated_id = stored.last_generated_id
        /\ stored'.next_ending_id = stored.next_ending_id
    /\ outcome'.op = "link_to_ending" =>
        /\ info'.last_generated_id = stored.last_generated_id
        /\ info'.next_ending_id = stored.next_ending_id
        /\ outcome'.err # "ok" =>
            info'.last_choice_id = stored.last_choice_id
        /\ outcome'.err = "ok" =>
            NodeId(info'.last_choice_id) = outcome'.target

C7_LinksChangeNoCounter == [][C7_Step]_vars

\* reached: a link to ending E0 moved the cursor from one choice to another
C7_Witness ==
    /\ Succeeded(outcome, "link_to_ending")
    /\ NodeId(stored.last_choice_id) = outcome.target
    /\ stored.last_choice_id = 2
    /\ Selected(stored) = {NodeId(2)}
    /\ \E e \in BagToSet(stored.graph.edges) :
          e.src = NodeId(1) /\ e.dst = EndingId(0) /\ e.color = NoColor

\* C8 as stated: advance_to_choice to an id that is no node of the graph
\* raises InvalidNodeId carrying that id and leaves the in-memory project
\* (nodes, edges, selection, last_choice_id, counters) as it was.
C8_AdvanceToMissingLeavesState ==
    (/\ outcome.op = "advance_to_choice"
     /\ ~HasNode(stored.graph, outcome.target))
    => /\ outcome.err = "InvalidNodeId"
       /\ outcome.node_id = outcome.target
       /\ info = stored

\* C9 as stated: add_ending with a new_choice_id that is no node of the
\* graph raises InvalidNodeId and leaves the in-memory project as it was.
C9_EndingToMissingLeavesState ==
    (/\ outcome.op = "add_ending"
     /\ ~HasNode(stored.graph, outcome.target))
    => /\ outcome.err = "InvalidNodeId"
       /\ info = stored

\* C10: link_to_choice to an id that is no node of the graph raises
\* InvalidNodeId carrying that id, and nothing is mutated: the in-memory
\* project and the stored project are what they were before the call.
C10_Step ==
    (/\ outcome'.op = "link_to_choice"
     /\ ~HasNode(stored.graph, outcome'.target))
    => /\ outcome'.err = "InvalidNodeId"
       /\ outcome'.node_id = outcome'.target
       /\ info' = stored
       /\ stored' = stored

C10_LinkToMissingMutatesNothing == [][C10_Step]_vars

\* reached: a link to a missing id was refused on a project with choices
C10_Witness ==
    /\ outcome.op = "link_to_choice"
    /\ outcome.err = "InvalidNodeId"
    /\ outcome.node_id = outcome.target
    /\ ~HasNode(stored.graph, outcome.target)
    /\ Cardinality(Nodes(stored)) >= 2
    /\ info = stored

\* C11: a command (choices add, choices advance, choices link, ending add,
\* ending link, new) that does not return normally, whether it aborts on an
\* invalid id or on a caller-level precondition or dies of an exception,
\* leaves the stored project (graph, last_selected_choice, last_id,
\* next_ending_id) as it was before the command; what is stored is the
\* project of an operation that returned normally.
C11_Step ==
    /\ outcome'.err # "ok" => stored' = stored /\ outcome'.code = 1
    /\ outcome'.err = "ok" => stored' = info' /\ outcome'.code = 0

C11_AbortLeavesStoredProject == [][C11_Step]_vars

\* reached: choices advance aborted on a missing id after advance_to_choice
\* had deselected the cursor in memory; the stored project has its cursor
C11_Witness ==
    /\ outcome.op = "choices advance"
    /\ outcome.err = "Exit"
    /\ outcome.message = "id " \o outcome.target \o " does not exist"
    /\ ~HasNode(stored.graph, outcome.target)
    /\ Selected(info) = {}
    /\ Selected(stored) = {NodeId(stored.last_choice_id)}
    /\ BagCardinality(stored.graph.edges) >= 2

\* C12 as stated: add_choices_and_selection, advance_to_choice and
\* add_ending, run by their commands on inputs the callers let through (a
\* batch of n >= 1 labels with an index in 0..n-1; an existing id other than
\* the cursor; an existing id with the cursor off the start node), obtain
\* their route colour and complete for every value of next_ending_id, the
\* values from the palette's length on included.
C12_ColourForEveryEndingCount ==
    (/\ Exists(stored)
     /\ \/ /\ outcome.op = "choices add"
           /\ outcome.n >= 1
           /\ IsNumber(outcome.index)
           /\ int(outcome.index) \in 0..(outcome.n - 1)
        \/ /\ outcome.op = "choices advance"
           /\ HasNode(stored.graph, outcome.target)
           /\ outcome.target # NodeId(stored.last_choice_id)
        \/ /\ outcome.op = "ending add"
           /\ HasNode(stored.graph, outcome.target)
           /\ stored.last_choice_id # 0)
    => outcome.err = "ok"

\* C13: a successful add_choices_and_selection of n labels with an index i,
\* 0 <= i < n, from cursor c adds exactly the n nodes with the next n ids,
\* each labelled "<id>. <label>" and not selected unless it is the i-th, and
\* exactly n edges, one from c to each new node; the edge to the i-th new
\* node carries the current route colour and the other n-1 are uncoloured;
\* the old nodes and edges stay, c is no longer selected, the i-th new node
\* is, and last_choice_id is its id.
C13_Step ==
    (/\ Succeeded(outcome', "add_choices_and_selection")
     /\ outcome'.index \in 0..(outcome'.n - 1))
    => LET n == outcome'.n
           c == NodeId(stored.last_choice_id)
           first == stored.last_generated_id + 1
           chosen == first + outcome'.index
           colour == ROUTE_COLORS[stored.next_ending_id + 1]
           added == {Edge(c, NodeId(first + j),
                          IF j = outcome'.index THEN colour ELSE NoColor) :
                     j \in 0..(n - 1)}
       IN  /\ Nodes(stored') \ Nodes(stored) =
                  {NodeId(first + j) : j \in 0..(n - 1)}
           /\ Cardinality(Nodes(stored')) = Cardinality(Nodes(stored)) + n
           /\ \A j \in 0..(n - 1) :
                  /\ \E l \in Labels :
                         stored'.graph.nodes[NodeId(first + j)].label =
                             ToString(first + j) \o ". " \o l
                  /\ ~stored'.graph.nodes[NodeId(first + j)].filled
           /\ KeepsNodes(stored, stored')
           /\ KeepsEdges(stored, stored')
           /\ Cardinality(added) = n
           /\ SameBag(EdgesAdded(stored, stored'), SetToBag(added))
           /\ BagCardinality(stored'.graph.edges) =
                  BagCardinality(stored.graph.edges) + n
           /\ c \notin Selected(stored')
           /\ Selected(stored') = {NodeId(chosen)}
           /\ stored'.last_choice_id = chosen

C13_AddChoicesAndSelection == [][C13_Step]_vars

\* reached: from cursor 1, on the blue route, a batch gave node 2 whose edge
\* 1 -> 2 is blue
C13_Witness ==
    /\ Succeeded(outcome, "add_choices_and_selection")
    /\ outcome.index = 0
    /\ stored.next_ending_id = 1
    /\ stored.last_choice_id = 2
    /\ Selected(stored) = {NodeId(2)}
    /\ Edge(NodeId(1), NodeId(2), "blue") \in BagToSet(stored.graph.edges)

\* C14: a successful add_ending(label, x) from cursor c with next_ending_id
\* = k adds exactly one node, E<k>, labelled "E<k>. <label>" and marked as
\* an ending, and exactly one edge, c -> E<k>, in the route colour of k; x
\* was a node before the call and is the selected node after it (c is not,
\* unless x = c), last_choice_id = x, next_ending_id = k + 1, and every old
\* node and edge stays as it was, colours included.
C14_Step ==
    Succeeded(outcome', "add_ending")
    => LET k == stored.next_ending_id
           c == NodeId(stored.last_choice_id)
           x == outcome'.target
           ending == "E" \o ToString(k)
       IN  /\ ending \notin Nodes(stored)
           /\ Nodes(stored') \ Nodes(stored) = {ending}
           /\ \E l \in Labels :
                  stored'.graph.nodes[ending].label = ending \o ". " \o l
           /\ stored'.graph.nodes[ending].filled
           /\ stored'.graph.nodes[ending].shape = "circle"
           /\ KeepsNodes(stored, stored')
           /\ KeepsEdges(stored, stored')
           /\ SameBag(EdgesAdded(stored, stored'),
                      SetToBag({Edge(c, ending, ROUTE_COLORS[k + 1])}))
           /\ BagCardinality(stored'.graph.edges) =
                  BagCardinality(stored.graph.edges) + 1
           /\ x \in Nodes(stored)
           /\ Selected(stored') = {x}
           /\ x # c => c \notin Selected(stored')
           /\ NodeId(stored'.last_choice_id) = x
           /\ stored'.next_ending_id = k + 1

C15_Step ==
    (/\ Succeeded(outcome', "advance_to_choice")
     /\ outcome'.target # NodeId(stored.last_choice_id))
    => LET c == NodeId(stored.last_choice_id)
           t == outcome'.target
           colour == ROUTE_COLORS[stored.next_ending_id + 1]
       IN  /\ Nodes(stored') = Nodes(stored)
           /\ KeepsNodes(stored, stored')
           /\ KeepsEdges(stored, stored')
           /\ SameBag(EdgesAdded(stored, stored'),
                      SetToBag({Edge(c, t, colour)}))
           /\ BagCardinality(stored'.graph.edges) =
                  BagCardinality(stored.graph.edges) + 1
           /\ c \notin Selected(stored')
           /\ Selected(stored') = {t}
           /\ NodeId(stored'.last_choice_id) = t
           /\ stored'.last_generated_id = stored.last_generated_id
           /\ stored'.next_ending_id = stored.next_ending_id

C15_AdvanceToChoice == [][C15_Step]_vars

\* reached: an advance along a candidate edge: the uncoloured edge into the
\* target is still there next to the new blue one
C15_Witness ==
    /\ Succeeded(outcome, "advance_to_choice")
    /\ outcome.target = NodeId(stored.last_choice_id)
    /\ \E e \in BagToSet(stored.graph.edges) :
          /\ e.dst = outcome.target
          /\ e.src # outcome.target
          /\ e.color = NoColor
          /\ Edge(e.src, e.dst, "blue") \in BagToSet(stored.graph.edges)

\* C16: a successful link_to_choice(t) from cursor c adds exactly one edge,
\* c -> t, uncoloured; no node is added, the nodes and the selection are
\* what they were (c is still the selected node) and every old edge keeps
\* its colour.
C16_Step ==
    Succeeded(outcome', "link_to_choice")
    => LET c == NodeId(stored.last_choice_id)
           t == outcome'.target
       IN  /\ stored'.graph.nodes = stored.graph.nodes
           /\ KeepsEdges(stored, stored')
           /\ SameBag(EdgesAdded(stored, stored'),
                      SetToBag({Edge(c, t, NoColor)}))
           /\ BagCardinality(stored'.graph.edges) =
                  BagCardinality(stored.graph.edges) + 1
           /\ Selected(stored') = {c}
           /\ stored'.last_choice_id = stored.last_choice_id

C16_LinkToChoice == [][C16_Step]_vars

\* reached: a link from choice 2 back to choice 1, next to coloured edges
C16_Witness ==
    /\ Succeeded(outcome, "link_to_choice")
    /\ outcome.target = NodeId(1)
    /\ stored.last_choice_id = 2
    /\ Selected(stored) = {NodeId(2)}
    /\ Edge(NodeId(2), NodeId(1), NoColor) \in BagToSet(stored.graph.edges)
    /\ \E e \in BagToSet(stored.graph.edges) : e.color # NoColor

\* C17: the project that new creates and stores has a graph of exactly one
\* node, id 0, labelled "0. start" and marked selected, no edge, and
\* last_choice_id = last_generated_id = next_ending_id = 0.
C17_Step ==
    Succeeded(outcome', "new")
    => /\ ~Exists(stored)
       /\ Nodes(stored') = {"0"}
       /\ stored'.graph.nodes["0"].label = "0. start"
       /\ Selected(stored') = {"0"}
       /\ ~stored'.graph.nodes["0"].filled
       /\ BagCardinality(stored'.graph.edges) = 0
       /\ stored'.last_choice_id = 0
       /\ stored'.last_generated_id = 0
       /\ stored'.next_ending_id = 0
       /\ info' = stored'

C17_NewProject == [][C17_Step]_vars

\* reached: new has just created the project
C17_Witness ==
    /\ Succeeded(outcome, "new")
    /\ outcome.code = 0
    /\ Exists(stored)
    /\ Nodes(stored) = {NodeId(0)}
    /\ stored.last_choice_id = 0

\* C18: choices advance and choices link, given the id of the currently
\* selected node, abort with exit code 1 before the core operation is
\* invoked, in every project state: the project in memory is the one that
\* was read (no edge added) and the stored project is unchanged.
C18_Step ==
    (/\ Exists(stored)
     /\ outcome'.op \in {"choices advance", "choices link"}
     /\ outcome'.target = NodeId(stored.last_choice_id))
    => /\ outcome'.err = "Exit"
       /\ outcome'.code = 1
       /\ outcome'.message \in
              {"Cannot advance currently selected node to itself",
               "Cannot link currently selected node to itself"}
       /\ info' = stored
       /\ stored' = stored

C18_NoAdvanceOrLinkToCursor == [][C18_Step]_vars

\* reached: choices link to the cursor itself was refused with the cursor
\* on a choice other than the start node
C18_Witness ==
    /\ outcome.op = "choices link"
    /\ outcome.target = NodeId(stored.last_choice_id)
    /\ stored.last_choice_id # 0
    /\ outcome.err = "Exit"
    /\ outcome.code = 1
    /\ outcome.message = "Cannot link currently selected node to itself"
    /\ info = stored

\* C19: ending add aborts with exit code 1, before add_ending is invoked and
\* without changing the stored project, whenever the cursor of the stored
\* project is the start node (last_choice_id = 0), in a fresh project and
\* after the cursor came back to node 0 alike.
C19_Step ==
    (/\ Exists(stored)
     /\ outcome'.op = "ending add"
     /\ stored.last_choice_id = 0)
    => /\ outcome'.err = "Exit"
       /\ outcome'.code = 1
       /\ outcome'.message =
              "You cannot add an ending directly to the start node"
       /\ info' = stored
       /\ stored' = stored

C19_NoEndingFromStart == [][C19_Step]_vars

\* reached: ending add was refused on a project that has an ending already
\* and whose cursor jumped back to the start node
C19_Witness ==
    /\ outcome.op = "ending add"
    /\ outcome.err = "Exit"
    /\ outcome.message = "You cannot add an ending directly to the start node"
    /\ stored.last_choice_id = 0
    /\ Selected(stored) = {NodeId(0)}
    /\ EndingId(0) \in Nodes(stored)
    /\ Cardinality(Nodes(stored)) >= 3

\* C20: choices add aborts with exit code 1 and leaves the stored project
\* unchanged when the batch of labels is empty or when the index typed is
\* no number or lies outside 0 <= i < n for the batch of n labels (negative
\* indexes included); add_choices_and_selection is reached, and the project
\* in memory changed, only with a non-empty batch and an index in range.
C20_Step ==
    (/\ Exists(stored)
     /\ outcome'.op = "choices add")
    => LET n == outcome'.n
           valid == /\ n >= 1
                    /\ IsNumber(outcome'.index)
                    /\ int(outcome'.index) \in 0..(n - 1)
       IN  /\ ~valid => /\ outcome'.err = "Exit"
                        /\ outcome'.code = 1
                        /\ info' = stored
                        /\ stored' = stored
           /\ n = 0 =>
                  outcome'.message = "At least one choice must be entered"
           /\ valid => /\ outcome'.err # "Exit"
                       /\ info' # stored

C20_ChoicesAddValidatesInput == [][C20_Step]_vars

\* reached: a batch with the index -1 was refused on a project that has
\* choices already
C20_Witness ==
    /\ outcome.op = "choices add"
    /\ outcome.n = 1
    /\ outcome.index = "-1"
    /\ outcome.err = "Exit"
    /\ outcome.message = "Index -1 is out of bounds"
    /\ Cardinality(Nodes(stored)) >= 2
    /\ info = stored

\* C21: the new command on a project name whose graph file exists aborts
\* with exit code 1 and leaves every file of the data directory as it was,
\* whatever the project holds; on a name without a graph file new computes
\* the fresh project whatever the other names hold, touches no other
\* project's files, and its store_info leaves the fresh project on disk.
C21_Step ==
    \A proc \in Procs, name \in Names :
        /\ Starts(proc, "new", name) =>
              IF stored[name].graph # NoFile
              THEN /\ outcome'.proc[proc] = Idle("new", name, "Exit")
                   /\ outcome'.proc[proc].code = 1
                   /\ stored' = stored
              ELSE /\ outcome'.proc[proc] = Running("computed", "new", name)
                   /\ info'[proc] = create_project
                   /\ \A other \in Names \ {name} :
                          stored'[other] = stored[other]
        /\ (Stores(proc) /\ OwnGraph(proc) /\ outcome.proc[proc].op = "new"
               /\ outcome.proc[proc].name = name) =>
              /\ ReadFiles(stored'[name]) = Ok(create_project)
              /\ \A other \in Names \ {name} : stored'[other] = stored[other]

C21_NewOnExistingProjectAborts == [][C21_Step]_vars

C21_Witness ==
    /\ outcome.proc[1] = Idle("new", "test_name", "Exit")
    /\ stored["test_name"].graph # NoFile
    /\ stored["test_name"].data # NoFile
    /\ ReadFiles(stored["test_name"]).val.last_generated_id >= 1

\* C22: every command other than new, started on a project name without a
\* graph file, aborts with exit code 1 and writes neither the graph file nor
\* the data file of any project (get_project_dir only makes the directory);
\* a new on a name whose directory is there but whose graph file is not
\* computes the fresh one-node project.
OtherCommands ==
    {"choices add", "choices advance", "choices link", "ending add",
     "ending link", "view"}

C22_Step ==
    \A proc \in Procs, name \in Names :
        /\ \A op \in OtherCommands :
              (Starts(proc, op, name) /\ stored[name].graph = NoFile) =>
                  /\ outcome'.proc[proc] = Idle(op, name, "Exit")
                  /\ outcome'.proc[proc].code = 1
                  /\ stored' = [stored EXCEPT ![name].dir = TRUE]
                  /\ stored'[name].graph = NoFile
        /\ (Starts(proc, "new", name) /\ stored[name].dir
               /\ stored[name].graph = NoFile) =>
                  /\ outcome'.proc[proc] = Running("computed", "new", name)
                  /\ info'[proc] = create_project

C23_Step ==
    \A proc \in Procs :
        (Stores(proc) /\ OwnGraph(proc)) =>
            LET r == ReadFiles(stored'[outcome.proc[proc].name])
                p == info[proc]
            IN  /\ r.err = "ok"
                /\ DOMAIN r.val.graph.nodes = DOMAIN p.graph.nodes
                /\ \A id \in DOMAIN p.graph.nodes :
                       r.val.graph.nodes[id] = p.graph.nodes[id]
                /\ SameBag(r.val.graph.edges, p.graph.edges)
                /\ r.val.last_choice_id = p.last_choice_id
                /\ r.val.last_generated_id = p.last_generated_id
                /\ r.val.next_ending_id = p.next_ending_id

EndingIds(p) == {EndingId(k) : k \in 0..Len(ROUTE_COLORS)} \cap Nodes(p)

C24_NoEndingIsSelected ==
    Exists(stored) =>
        /\ Selected(stored) \cap EndingIds(stored) = {}
        /\ Selected(stored) \subseteq
               {NodeId(k) : k \in 0..stored.last_generated_id}
        /\ NodeId(stored.last_choice_id) \in Selected(stored)
        /\ \A id \in EndingIds(stored) :
               /\ stored.graph.nodes[id].shape = "circle"
               /\ stored.graph.nodes[id].filled

C24_Witness ==
    /\ Succeeded(outcome, "ending add")
    /\ EndingId(0) \in EndingIds(stored)
    /\ stored.last_choice_id >= 1

\* C25: the command that follows a successful ending link, the same way as
\* the one that follows a successful ending add, colours the edges it
\* travels with a route colour that no edge of the stored graph carries yet:
\* in particular not the colour of the route that the link closed
\* (every uncoloured edge of the stored graph leads to an ending: the link
\* was to an ending.)
C25_Step ==
    (/\ Succeeded(outcome, "ending link") \/ Succeeded(outcome, "ending add")
     /\ \A l \in BagToSet(stored.graph.edges) :
            l.color = NoColor => l.dst \in EndingIds(stored)) =>
        \A e \in BagToSet(EdgesAdded(stored, stored')) :
            e.color # NoColor =>
                \A f \in BagToSet(stored.graph.edges) : f.color # e.color

C25_EndingLinkStartsNewRoute == [][C25_Step]_vars

\* C26: every node that add_choices_and_selection and add_ending create
\* has an id that is no node of the graph yet: a batch of n labels creates n
\* new nodes, with the n numeric ids after last_generated_id, whether the
\* operation then succeeds or fails, and add_ending creates one new node,
\* E<next_ending_id>; no numeric id is an E-prefixed id.
C26_Step ==
    LET created == Nodes(info') \ Nodes(info)
    IN  /\ outcome'.op = "add_choices_and_selection" =>
              LET ids == {NodeId(info.last_generated_id + i) :
                             i \in 1..outcome'.n}
              IN  /\ ids \cap Nodes(info) = {}
                  /\ created = ids
                  /\ Cardinality(created) = outcome'.n
                  /\ ids \cap {EndingId(k) : k \in 0..Len(ROUTE_COLORS)} = {}
        /\ outcome'.op = "add_ending" =>
              /\ EndingId(info.next_ending_id) \notin Nodes(info)
              /\ created = {EndingId(info.next_ending_id)}

C26_CreatedIdsAreNew == [][C26_Step]_vars

C26_Witness ==
    /\ Succeeded(outcome, "add_choices_and_selection")
    /\ outcome.n = 2
    /\ EndingId(0) \in Nodes(stored)

\* C29: every coloured edge an operation creates while next_ending_id = k
\* carries ROUTE_COLORS[k], so all the coloured edges of one route segment
\* have one colour; the edge that a successful add_ending draws into E<k>
\* has the colour of k, the route that led to it, and the next route's
\* colour belongs to k + 1; in every stored graph a coloured edge into E<k>
\* has the colour of k.
C29_Step ==
    LET k == info.next_ending_id
    IN  /\ \A e \in BagToSet(EdgesAdded(info, info')) :
               e.color # NoColor =>
                   /\ k < Len(ROUTE_COLORS)
                   /\ e.color = ROUTE_COLORS[k + 1]
        /\ Succeeded(outcome', "add_ending") =>
               /\ stored'.next_ending_id = k + 1
               /\ \E e \in BagToSet(EdgesAdded(info, info')) :
                      /\ e.dst = EndingId(k)
                      /\ e.color = ROUTE_COLORS[k + 1]
        /\ \A j \in 0..(Len(ROUTE_COLORS) - 1) :
               \A e \in BagToSet(stored'.graph.edges) :
                   (e.dst = EndingId(j) /\ e.color # NoColor) =>
                       e.color = ROUTE_COLORS[j + 1]

C29_RouteSegmentHasOneColour == [][C29_Step]_vars

C29_Witness ==
    /\ Succeeded(outcome, "add_ending")
    /\ stored.next_ending_id = 2
    /\ \E e \in BagToSet(stored.graph.edges) :
           e.dst = EndingId(1) /\ e.color = ROUTE_COLORS[2]
    /\ \E e \in BagToSet(stored.graph.edges) :
           e.dst # EndingId(1) /\ e.color = ROUTE_COLORS[2]

\* C30: next_ending_id never exceeds the length of ROUTE_COLORS, in the
\* stored project and in memory.  Once it equals that length (two endings
\* were added) every add_ending and every add_choices_and_selection raises
\* IndexError, every advance_to_choice to an existing node raises IndexError
\* on the palette lookup (to a missing node, InvalidNodeId before it), none
\* of them is stored, and link_to_choice to an existing node still
\* completes; the only operations that complete are links (link_to_choice
\* and, as modelled, link_to_ending, which looks up no colour).
C30_Step ==
    /\ stored'.next_ending_id <= Len(ROUTE_COLORS)
    /\ info'.next_ending_id <= Len(ROUTE_COLORS)
    /\ info.next_ending_id = Len(ROUTE_COLORS) =>
          /\ outcome'.op \in {"add_ending", "add_choices_and_selection"} =>
                 outcome'.err = "IndexError"
          /\ outcome'.op = "advance_to_choice" =>
                 outcome'.err = IF outcome'.target \in Nodes(info)
                                THEN "IndexError" ELSE "InvalidNodeId"
          /\ (outcome'.op = "link_to_choice"
                 /\ outcome'.target \in Nodes(info)) => outcome'.err = "ok"
          /\ outcome'.err # "ok" => stored' = stored
          /\ outcome'.err = "ok" =>
                 outcome'.op \in {"link_to_choice", "link_to_ending",
                                  "read_project_info"}

C27_Step ==
    \A proc \in Procs :
        LET name == outcome.proc[proc].name
        IN  /\ (outcome.proc[proc].pc = "computed"
                   /\ outcome'.proc[proc].pc = "graph_stored") =>
                  /\ stored'[name].graph = File(store(info[proc].graph))
                  /\ stored'[name].data = stored[name].data
            /\ Stores(proc) =>
                  /\ stored'[name].data = File(_store_ids(info[proc]))
                  /\ stored'[name].graph = stored[name].graph

C27_LastWriterWins == [][C27_Step]_vars

C27_Witness ==
    /\ outcome.proc[1] = Idle("choices add", "test_name", "ok")
    /\ outcome.proc[2] = Idle("choices add", "test_name", "ok")
    /\ ReadFiles(stored["test_name"]).err = "ok"
    /\ ReadFiles(stored["test_name"]).val.last_generated_id #
           Max(NumericIds(ReadFiles(stored["test_name"]).val))

\* C28: as long as one invocation at a time works on the data directory,
\* whenever a project's graph file changes, its data file holds the
\* last_selected_choice, last_id and next_ending_id of the project whose
\* graph was written: the graph file is never on disk with the data file
\* of the state before the command.
C28_Step ==
    outcome.proc[2].op = "" =>
        \A name \in Names :
            stored'[name].graph # stored[name].graph =>
                stored'[name].data = File(_store_ids(info[1]))

C28_StoreInfoIsOneWrite == [][C28_Step]_vars

\* C31: when add_choices_and_selection (with an index of the batch) or
\* add_ending raises IndexError on the palette lookup, next_ending_id being
\* beyond the palette, the project in memory is the one before the call:
\* the same nodes with the same marking, the same edges, the same counters.
C31_Step ==
    (/\ info.next_ending_id >= Len(ROUTE_COLORS)
     /\ outcome'.err = "IndexError"
     /\ \/ outcome'.op = "add_ending"
        \/ /\ outcome'.op = "add_choices_and_selection"
           /\ outcome'.index \in 0..(outcome'.n - 1))
    => info' = info

C31_PaletteFailureLeavesState == [][C31_Step]_vars

\* the nodes of p that directed edges lead to from the nodes of seen
RECURSIVE ReachableFrom(_, _)
ReachableFrom(p, seen) ==
    LET next == seen \cup {e.dst : e \in {f \in BagToSet(p.graph.edges) :
                                              f.src \in seen}}
    IN  IF next = seen THEN seen ELSE ReachableFrom(p, next)

\* C32: in every project state, the stored one and the one an operation
\* leaves in memory, every node of the graph is reachable from the start
\* node 0 along directed edges.
C32_AllReachableFromStart ==
    /\ ReachableFrom(stored, {NodeId(0)}) = Nodes(stored)
    /\ ReachableFrom(info, {NodeId(0)}) = Nodes(info)

\* C33: endings are terminal: in every project the commands store, and in
\* the project a command leaves in memory, no edge has a node with an
\* E-prefixed id as its source.
C33_EndingsAreTerminal ==
    /\ \A e \in BagToSet(stored.graph.edges) : e.src \notin EndingIds(stored)
    /\ \A e \in BagToSet(info.graph.edges) : e.src \notin EndingIds(info)

C33_Witness ==
    /\ Succeeded(outcome, "ending link")
    /\ \E e \in BagToSet(stored.graph.edges) :
           e.dst = EndingId(0) /\ e.color = NoColor
    /\ \E e \in BagToSet(stored.graph.edges) :
           e.dst = EndingId(0) /\ e.color # NoColor

\* C35: every edge that a successful link_to_ending adds leads to an ending
\* node (a node with an E-prefixed id); a call whose ending id names the
\* start node or a choice adds no edge to it.
C35_Step ==
    Succeeded(outcome', "link_to_ending") =>
        \A e \in BagToSet(EdgesAdded(stored, stored')) :
            e.dst \in EndingIds(stored)

C35_LinkToEndingTargetsEndings == [][C35_Step]_vars

\* C34: no project that the commands new, choices add, choices advance,
\* choices link, ending add and ending link store has a self-loop, an edge
\* whose source is its target.
C34_NoSelfLoop ==
    \A e \in BagToSet(stored.graph.edges) : e.src # e.dst

\* C36: no project the commands store has an edge from the start node 0 to
\* an ending node.
C36_NoEndingOnStart ==
    \A e \in BagToSet(stored.graph.edges) :
        ~(e.src = NodeId(0) /\ e.dst \in EndingIds(stored))

\* C37: the graph only grows.  Whatever an operation does, completed or
\* failed, the project it leaves has every node the project before it had,
\* with the same label and the same ending style, and every edge, as often
\* and in the same colour; the only nodes whose shape differs are the old
\* cursor and the node the operation selected, and the shape goes between
\* plain and selected only.
C37_Step ==
    LET old == NodeId(stored.last_choice_id)
    IN  /\ Nodes(stored) \subseteq Nodes(info')
        /\ KeepsNodes(stored, info')
        /\ KeepsEdges(stored, info')
        /\ \A id \in Nodes(stored) :
               info'.graph.nodes[id].shape # stored.graph.nodes[id].shape =>
                   /\ id \in {old} \cup Selected(info')
                   /\ {info'.graph.nodes[id].shape,
                       stored.graph.nodes[id].shape} =
                          {"ellipse", "doublecircle"}
        /\ Nodes(stored) \subseteq Nodes(stored')
        /\ KeepsNodes(stored, stored')
        /\ KeepsEdges(stored, stored')

C37_GraphOnlyGrows == [][C37_Step]_vars

C37_Witness ==
    /\ Succeeded(outcome, "advance_to_choice")
    /\ stored.next_ending_id = 1
    /\ \E e \in BagToSet(stored.graph.edges) :
           e.color = NoColor /\ e.dst = outcome.target
    /\ \E e \in BagToSet(stored.graph.edges) :
           e.color = ROUTE_COLORS[2] /\ e.dst = outcome.target
    /\ \E e \in BagToSet(stored.graph.edges) : e.color = ROUTE_COLORS[1]

====
